---- MODULE Spec2Model ----
(***************************************************************************)
(* Model of @bsv/simple: the did:bsv subsystem and the server modules.     *)
(*                                                                         *)
(*  - the DID engine of modules/did.ts (createDID, updateDID,               *)
(*    deactivateDID, spendChainOutput, listDIDs, resolveDID's local tier)  *)
(*    running as                                                           *)
(*    asynchronous calls that interleave at their awaits, against a wallet *)
(*    (tracked outputs) and a ledger that enforces single spend;           *)
(*  - the chain crawl (_resolveViaWhatsOnChain / resolveViaWoC) against a  *)
(*    chain-indexing API whose answers may be faithful, unavailable or     *)
(*    crafted;                                                             *)
(*  - the resolution tiers of resolveDID (did.ts) and of the resolution    *)
(*    service and its HTTP handler (server/did-resolver.ts), against a    *)
(*    remote resolver that answers anything, or never;                     *)
(*  - the OP_RETURN codec: buildOpReturn and the service's                 *)
(*    parseOpReturnSegments, one loop iteration per step;                  *)
(*  - the server wallet manager and its handlers (lazy initialization,     *)
(*    key file, reset), with requests that interleave at their awaits;     *)
(*  - the credential issuer's issue, revoke and isRevoked over its         *)
(*    revocation store;                                                    *)
(*  - the overlay's topic list and broadcaster.                            *)
(***************************************************************************)
EXTENDS Integers, Sequences, FiniteSets, TLC

VARIABLES
    chain,      \* the ledger: sequence of transactions, txid = index
    outputs,    \* the wallet's tracked outputs, in insertion order
    proc,       \* per caller: the position and locals of its pending call
    world,      \* crawl: what the chain indexer serves, and the crawler's configuration
    crawl,      \* crawl: locals of _resolveViaWhatsOnChain / resolveViaWoC
    req,        \* resolution tiers: one resolveDID call or one GET of the resolution handler
    cod,        \* codec: one parseOpReturnSegments call, its input and its locals
    mgr,        \* server wallet manager: the manager's fields, the key file, the requests
    iss,        \* credential issuer: issued and revoked credentials, the revocation store
    ovl         \* overlay: the topic list, the broadcaster, the broadcasts made

vars == <<chain, outputs, proc, world, crawl, req, cod, mgr, iss, ovl>>

engineVars == <<chain, outputs, proc>>
crawlVars == <<world, crawl>>
tierVars == <<req>>
moduleVars == <<cod, mgr, iss, ovl>>

----------------------------------------------------------------------------
(* Bounds *)

MaxDIDs == 2
MaxTx == 4

Procs == {"p1", "p2"}

----------------------------------------------------------------------------
(* Constants of the program *)

DefaultBasket == "did-chain"
Baskets == {"did-chain", "custom"}
RetryLimit == 3

\* DIDCreateOptions the callers pass: basket, identityCode, services.
CreateOptions ==
    {[basket |-> "did-chain", identityCode |-> "c1", services |-> <<"svc">>],
     [basket |-> "custom", identityCode |-> "c2", services |-> <<>>]}

\* DIDUpdateOptions the callers pass: services, additionalKeys.
UpdateOptions ==
    {[services |-> <<>>, additionalKeys |-> <<>>],
     [services |-> <<"svc2">>, additionalKeys |-> <<"key2">>]}

----------------------------------------------------------------------------
(* DID strings *)

NoDID == <<>>
BadDID == <<"bad">>

FromTxid(txid) == <<"did:bsv", txid>>

IsTxidDID(did) == Len(did) = 2 /\ did[1] = "did:bsv"

Identifier(did) == did[2]

SubjectKeyOf(identityCode) == <<"subject", identityCode>>

NoKey == 0
NoSubject == <<>>

BuildDocument(txid, subjectKey, controller, services) ==
    [id |-> FromTxid(txid),
     verificationMethod |-> <<subjectKey>>,
     controller |-> controller,
     service |-> services]

NoDocument ==
    [id |-> NoDID, verificationMethod |-> <<>>, controller |-> NoDID, service |-> <<>>]

AddKeys(document, additionalKeys) ==
    [document EXCEPT !.verificationMethod = @ \o additionalKeys]

----------------------------------------------------------------------------
(* customInstructions written by the engine *)

IssuanceCI(identityCode, chainKeyHex, subjectKey) ==
    [type |-> "did-issuance", did |-> NoDID, identityCode |-> identityCode,
     chainKeyHex |-> chainKeyHex, subjectKey |-> subjectKey, issuanceTxid |-> 0,
     services |-> <<>>, additionalKeys |-> <<>>, status |-> "pending"]

DocumentCI(did, identityCode, chainKeyHex, subjectKey, issuanceTxid) ==
    [type |-> "did-document", did |-> did, identityCode |-> identityCode,
     chainKeyHex |-> chainKeyHex, subjectKey |-> subjectKey, issuanceTxid |-> issuanceTxid,
     services |-> <<>>, additionalKeys |-> <<>>, status |-> "active"]

UpdateCINoCode(did, identityCode, chainKeyHex, subjectKey, issuanceTxid, services, additionalKeys) ==
    [type |-> "did-update", did |-> did, identityCode |-> "none",
     chainKeyHex |-> chainKeyHex, subjectKey |-> subjectKey, issuanceTxid |-> issuanceTxid,
     services |-> services, additionalKeys |-> additionalKeys, status |-> "active"]

UpdateCIStale(did, identityCode, chainKeyHex, subjectKey, issuanceTxid, services, additionalKeys) ==
    [type |-> "did-update", did |-> did, identityCode |-> identityCode,
     chainKeyHex |-> chainKeyHex, subjectKey |-> subjectKey, issuanceTxid |-> issuanceTxid,
     services |-> services, additionalKeys |-> additionalKeys, status |-> "pending"]

UpdateCI(did, identityCode, chainKeyHex, subjectKey, issuanceTxid, services, additionalKeys) ==
    [type |-> "did-update", did |-> did, identityCode |-> identityCode,
     chainKeyHex |-> chainKeyHex, subjectKey |-> subjectKey, issuanceTxid |-> issuanceTxid,
     services |-> services, additionalKeys |-> additionalKeys, status |-> "active"]

RevocationCIRevoked(did, identityCode, subjectKey, issuanceTxid) ==
    [type |-> "did-revocation", did |-> did, identityCode |-> identityCode,
     chainKeyHex |-> NoKey, subjectKey |-> subjectKey, issuanceTxid |-> issuanceTxid,
     services |-> <<>>, additionalKeys |-> <<>>, status |-> "revoked"]

RevocationCI(did, identityCode, subjectKey, issuanceTxid) ==
    [type |-> "did-revocation", did |-> did, identityCode |-> identityCode,
     chainKeyHex |-> NoKey, subjectKey |-> subjectKey, issuanceTxid |-> issuanceTxid,
     services |-> <<>>, additionalKeys |-> <<>>, status |-> "deactivated"]

----------------------------------------------------------------------------
(* The wallet (ChainClient) and the ledger *)

\* A tracked output: spendable, in a basket, with its customInstructions.
Tracked(txid, index, basket, ci, visible) ==
    [txid |-> txid, index |-> index, basket |-> basket, ci |-> ci, visible |-> visible]

\* client.listOutputs({basket}): the visible tracked outputs of the basket.
ListOutputs(basket) ==
    SelectSeq(outputs, LAMBDA o : o.basket = basket /\ o.visible)

\* The ledger's single-spend rule: output 0 of txid is spent by some transaction.
IsSpent(txid) == \E t \in DOMAIN chain : chain[t].input = txid

\* A transaction of a DID chain: what it is, the chain output it spends, the
\* issuance it descends from, the chain key its output 0 is locked to, and the
\* identityCode its OP_RETURN carries (buildOpReturn(identityCode, payload)).
Tx(kind, input, root, key, code) ==
    [kind |-> kind, input |-> input, root |-> root, key |-> key, code |-> code]

\* The wallet drops a spent output from its tracked outputs.
WithoutOutput(outs, txid, index) ==
    SelectSeq(outs, LAMBDA o : ~(o.txid = txid /\ o.index = index))

----------------------------------------------------------------------------
(* Reductions over the listed outputs *)

MaxOf(S) == CHOOSE x \in S : \A y \in S : y <= x

IsActiveForAnyStatus(ci, did) == ci.did = did

\* did.ts: ci.did === options.did && ci.status === 'active'
IsActiveFor(ci, did) == ci.did = did /\ ci.status = "active"

\* The loop of updateDID / deactivateDID: the last matching output wins; 0 when none.
ActiveTipIndex(listed, did) ==
    LET hits == {i \in DOMAIN listed : IsActiveFor(listed[i].ci, did)}
    IN IF hits = {} THEN 0 ELSE MaxOf(hits)

\* findActiveTip(did) of the chain state store, over the default basket.
FindActiveTip(did) == ActiveTipIndex(ListOutputs(DefaultBasket), did)

\* The loop of _resolveFromBasket: the last output carrying the DID; 0 when none.
LatestIndex(listed, did) ==
    LET hits == {i \in DOMAIN listed : listed[i].ci.did = did}
    IN IF hits = {} THEN 0 ELSE MaxOf(hits)

----------------------------------------------------------------------------
(* Callers *)

IdleProc ==
    [pc |-> "idle", op |-> "none", did |-> NoDID, basket |-> DefaultBasket,
     identityCode |-> "none", chainKey |-> NoKey, subjectKey |-> NoSubject,
     issuanceTxid |-> 0, services |-> <<>>, additionalKeys |-> <<>>,
     attempt |-> 0, tip |-> 0, document |-> NoDocument, deactivated |-> FALSE,
     res |-> "none", tier |-> "none", listing |-> <<>>]

\* A call ends: it returns (res = "ok") or throws (res names the error). What
\* stays is what the caller sees: the result on a return, the error on a throw
\* (op, did, tip and attempt stay as a record of the call that ended).
Finish(r, res) ==
    IF res = "ok"
    THEN [IdleProc EXCEPT !.pc = "done", !.op = r.op, !.did = r.did, !.tip = r.tip,
                          !.attempt = r.attempt, !.res = res,
                          !.issuanceTxid = r.issuanceTxid,
                          !.identityCode = r.identityCode,
                          !.document = r.document, !.deactivated = r.deactivated,
                          !.tier = r.tier, !.listing = r.listing]
    ELSE [IdleProc EXCEPT !.pc = "done", !.op = r.op, !.did = r.did, !.tip = r.tip,
                          !.attempt = r.attempt, !.res = res]

Swallow(err) == "ok"

\* catch (error) { if (error instanceof DIDError) throw error; throw new DIDError(...) }
\* Every failure leaves the call as a thrown DIDError, named by its message.
CatchDID(err) == err

IssuedTxids == {t \in DOMAIN chain : chain[t].kind = "issuance"}

\* The DID strings callers pass in.
DIDArgs == {FromTxid(t) : t \in IssuedTxids} \cup {BadDID}

NoSpendInput(tip) == 0 - tip

\* spendChainOutput: inputs: [{ outpoint: currentOutpoint, ... }]
SpendInput(tip) == tip

----------------------------------------------------------------------------
(* createDID *)

\* createDID up to the await of the issuance createAction: the chain key is
\* drawn and the subject key derived (client.getPublicKey may throw).
CreateDID(p) ==
    /\ proc[p].pc \in {"idle", "done"}
    /\ Cardinality(IssuedTxids) + Cardinality({q \in Procs : proc[q].pc = "c_tx0"}) < MaxDIDs
    /\ \/ \E o \in CreateOptions :
            proc' = [proc EXCEPT ![p] =
                [IdleProc EXCEPT !.op = "create", !.pc = "c_tx0", !.basket = o.basket,
                                 !.identityCode = o.identityCode,
                                 !.services = o.services,
                                 !.subjectKey = SubjectKeyOf(o.identityCode)]]
       \/ proc' = [proc EXCEPT ![p] =
                Finish([IdleProc EXCEPT !.op = "create"], CatchDID("Wrapped"))]
    /\ UNCHANGED <<chain, outputs, crawlVars, tierVars, moduleVars>>

\* TX0: the issuance createAction answers. On success the ledger holds TX0 and the
\* wallet tracks its output 0 (status pending), which may not be listed yet.
\* The chain key drawn for this DID is named after the transaction it first locks.
IssuanceTx(p) ==
    /\ proc[p].pc = "c_tx0"
    /\ LET r == proc[p]
           txid == Len(chain) + 1
       IN \/ /\ Len(chain) < MaxTx
             /\ \E visible \in BOOLEAN :
                  outputs' = Append(outputs,
                      Tracked(txid, 0, r.basket,
                              IssuanceCI(r.identityCode, txid, r.subjectKey),
                              visible))
             /\ chain' = Append(chain, Tx("issuance", 0, txid, txid, r.identityCode))
             /\ proc' = [proc EXCEPT ![p] =
                    [r EXCEPT !.pc = "c_wait", !.issuanceTxid = txid, !.chainKey = txid,
                              !.did = FromTxid(txid), !.tip = txid,
                              !.document = BuildDocument(txid, r.subjectKey,
                                                         FromTxid(txid), r.services)]]
          \/ /\ \E err \in {"Wrapped", "NoTxid"} :
                  proc' = [proc EXCEPT ![p] = Finish(r, CatchDID(err))]
             /\ UNCHANGED <<chain, outputs>>
    /\ UNCHANGED <<crawlVars, tierVars, moduleVars>>

\* The wallet's listing catches up with a just-created output.
Propagate ==
    /\ \E i \in DOMAIN outputs :
         /\ ~outputs[i].visible
         /\ outputs' = [outputs EXCEPT ![i].visible = TRUE]
    /\ UNCHANGED <<chain, proc, crawlVars, tierVars, moduleVars>>

IssuanceOutputAssumed(listed, issuanceTxid) == TRUE

\* found = outputs.some(o => o.outpoint === issuanceOutpoint)
IssuanceOutputFound(listed, issuanceTxid) ==
    \E i \in DOMAIN listed : listed[i].txid = issuanceTxid /\ listed[i].index = 0

\* One round of "ensure issuance output is tracked in basket (retry up to 3x)".
CheckIssuanceOutput(p) ==
    /\ proc[p].pc = "c_wait"
    /\ LET r == proc[p]
           listed == ListOutputs(r.basket)
           found == IssuanceOutputFound(listed, r.issuanceTxid)
       IN \/ /\ found
             /\ proc' = [proc EXCEPT ![p] = [r EXCEPT !.pc = "s_prep"]]
          \/ /\ ~found
             /\ proc' = [proc EXCEPT ![p] =
                    IF r.attempt + 1 < RetryLimit
                    THEN [r EXCEPT !.attempt = r.attempt + 1]
                    ELSE Finish([r EXCEPT !.attempt = r.attempt + 1],
                                CatchDID("NotFoundAfterRetries"))]
          \/ proc' = [proc EXCEPT ![p] = Finish(r, CatchDID("Wrapped"))]
    /\ UNCHANGED <<chain, outputs, crawlVars, tierVars, moduleVars>>

----------------------------------------------------------------------------
(* spendChainOutput, shared by createDID (TX1), updateDID and deactivateDID *)

\* The basket the call reads and writes: createDID honours options.basket,
\* updateDID and deactivateDID use core.defaults.didBasket.
SpendBasket(r) == IF r.op = "create" THEN r.basket ELSE DefaultBasket

\* spendChainOutput up to the await of signAction: listOutputs({ include:
\* 'entire transactions' }) answers or throws; createAction({ inputs: [chain
\* UTXO], outputs }) answers with a signable transaction, without one, or
\* throws; the signable transaction is signed client-side with the chain key.
\* None of these touches the wallet's outputs or the ledger.
SpendPrepare(p) ==
    /\ proc[p].pc = "s_prep"
    /\ \E outcome \in {"signed", "throws", "noSignable", "noScript"} :
         proc' = [proc EXCEPT ![p] =
             CASE outcome = "throws" -> Finish(proc[p], CatchDID("Wrapped"))
               [] outcome = "noSignable" -> Finish(proc[p], CatchDID("ExpectedSignable"))
               [] outcome = "noScript" -> Finish(proc[p], CatchDID("NoUnlockingScript"))
               [] OTHER -> [proc[p] EXCEPT !.pc = "s_final"]]
    /\ UNCHANGED <<chain, outputs, crawlVars, tierVars, moduleVars>>

\* The outputs the call asked for, as the wallet tracks them once the
\* transaction txid is accepted.
NewOutputs(r, txid) ==
    CASE r.op = "create" ->
           <<Tracked(txid, 0, SpendBasket(r),
                     DocumentCI(r.did, r.identityCode, r.chainKey, r.subjectKey,
                                r.issuanceTxid), TRUE)>>
      [] r.op = "update" ->
           <<Tracked(txid, 0, SpendBasket(r),
                     UpdateCI(r.did, r.identityCode, r.chainKey, r.subjectKey,
                              r.issuanceTxid, r.services, r.additionalKeys), TRUE)>>
      [] OTHER ->
           <<Tracked(txid, 1, SpendBasket(r),
                     RevocationCI(r.did, r.identityCode, r.subjectKey, r.issuanceTxid),
                     TRUE)>>

TxKind(op) ==
    CASE op = "create" -> "document"
      [] op = "update" -> "update"
      [] OTHER -> "revocation"

\* client.signAction answers. The ledger accepts the transaction only if the
\* input is unspent; on acceptance the wallet drops the spent output and tracks
\* the new ones. Any rejection throws and changes nothing: "DoubleSpend" is the
\* ledger's rejection of a spent input, "Wrapped" any other failure.
SpendSignAction(p) ==
    /\ proc[p].pc = "s_final"
    /\ LET r == proc[p]
           input == SpendInput(r.tip)
           txid == Len(chain) + 1
       IN \/ /\ ~IsSpent(input)
             /\ Len(chain) < MaxTx
             /\ chain' = Append(chain, Tx(TxKind(r.op), input, r.issuanceTxid, r.chainKey,
                                         r.identityCode))
             /\ outputs' = WithoutOutput(outputs, input, 0) \o NewOutputs(r, txid)
             /\ proc' = [proc EXCEPT ![p] = Finish(r, "ok")]
          \/ /\ IsSpent(input)
             /\ proc' = [proc EXCEPT ![p] = Finish(r, CatchDID("DoubleSpend"))]
             /\ UNCHANGED <<chain, outputs>>
          \/ /\ ~IsSpent(input)
             /\ proc' = [proc EXCEPT ![p] = Finish(r, CatchDID("Wrapped"))]
             /\ UNCHANGED <<chain, outputs>>
    /\ UNCHANGED <<crawlVars, tierVars, moduleVars>>

----------------------------------------------------------------------------
(* updateDID and deactivateDID *)

\* The call up to the await inside spendChainOutput: DID.parse, listOutputs,
\* the scan for the active chain state, the checks, the rebuilt document.
ReadTip(p, op, did, services, additionalKeys, listOk) ==
    LET r == [IdleProc EXCEPT !.op = op, !.did = did, !.services = services,
                              !.additionalKeys = additionalKeys]
        listed == ListOutputs(DefaultBasket)
        i == ActiveTipIndex(listed, did)
    IN IF ~IsTxidDID(did) THEN Finish(r, CatchDID("InvalidDID"))
       ELSE IF ~listOk THEN Finish(r, CatchDID("Wrapped"))
       ELSE IF i = 0 THEN Finish(r, CatchDID("NoActiveChainState"))
       ELSE IF listed[i].ci.chainKeyHex = NoKey THEN Finish(r, CatchDID("NoChainKey"))
       ELSE LET ci == listed[i].ci
            IN [r EXCEPT !.pc = "s_prep",
                         !.tip = listed[i].txid,
                         !.identityCode = ci.identityCode,
                         !.subjectKey = ci.subjectKey,
                         !.issuanceTxid = ci.issuanceTxid,
                         !.chainKey = ci.chainKeyHex,
                         !.document =
                            IF op = "update"
                            THEN AddKeys(BuildDocument(ci.issuanceTxid, ci.subjectKey,
                                                       did, services),
                                         additionalKeys)
                            ELSE NoDocument]

UpdateDID(p) ==
    /\ proc[p].pc \in {"idle", "done"}
    /\ \E did \in DIDArgs, o \in UpdateOptions, listOk \in BOOLEAN :
         proc' = [proc EXCEPT ![p] =
                     ReadTip(p, "update", did, o.services, o.additionalKeys, listOk)]
    /\ UNCHANGED <<chain, outputs, crawlVars, tierVars, moduleVars>>

DeactivateDID(p) ==
    /\ proc[p].pc \in {"idle", "done"}
    /\ \E did \in DIDArgs, listOk \in BOOLEAN :
         proc' = [proc EXCEPT ![p] = ReadTip(p, "deactivate", did, <<>>, <<>>, listOk)]
    /\ UNCHANGED <<chain, outputs, crawlVars, tierVars, moduleVars>>

----------------------------------------------------------------------------
(* resolveDID: parse and the local tier *)

\* _resolveFromBasket over the listed outputs: "none" (null) or a result.
ResolveFromBasket(listed, did) ==
    LET i == LatestIndex(listed, did)
    IN IF i = 0 THEN [found |-> FALSE, document |-> NoDocument, deactivated |-> FALSE]
       ELSE LET ci == listed[i].ci
            IN IF ci.status = "deactivated"
               THEN [found |-> TRUE,
                     document |-> IF ci.subjectKey # NoSubject
                                  THEN BuildDocument(ci.issuanceTxid, ci.subjectKey, did, <<>>)
                                  ELSE NoDocument,
                     deactivated |-> TRUE]
               ELSE IF ci.subjectKey # NoSubject /\ ci.issuanceTxid # 0
               THEN [found |-> TRUE,
                     document |-> AddKeys(BuildDocument(ci.issuanceTxid, ci.subjectKey,
                                                        did, ci.services),
                                          ci.additionalKeys),
                     deactivated |-> FALSE]
               ELSE [found |-> FALSE, document |-> NoDocument, deactivated |-> FALSE]

\* resolveDID up to the first external call: DID.parse (throws on a malformed
\* DID), then the local basket; a throw of the local lookup is swallowed and
\* resolution falls through to the external tiers.
ResolveDID(p) ==
    /\ proc[p].pc \in {"idle", "done"}
    /\ \E did \in DIDArgs, listOk \in BOOLEAN :
         LET r == [IdleProc EXCEPT !.op = "resolve", !.did = did]
             local == ResolveFromBasket(ListOutputs(DefaultBasket), did)
         IN proc' = [proc EXCEPT ![p] =
                IF ~IsTxidDID(did) THEN Finish(r, "InvalidDID")
                ELSE IF listOk /\ local.found
                THEN Finish([r EXCEPT !.document = local.document,
                                      !.deactivated = local.deactivated,
                                      !.tier = "local"], "ok")
                ELSE [r EXCEPT !.pc = "r_ext",
                               !.tier = IF listOk THEN "localMiss" ELSE "localThrew"]]
    /\ UNCHANGED <<chain, outputs, crawlVars, tierVars, moduleVars>>

\* The external tiers: the proxy, the resolver service, and last the chain
\* crawl, which always answers. What they answer is modelled by the crawl below.
ResolveExternal(p) ==
    /\ proc[p].pc = "r_ext"
    /\ proc' = [proc EXCEPT ![p] = Finish([proc[p] EXCEPT !.tier = "external"], "ok")]
    /\ UNCHANGED <<chain, outputs, crawlVars, tierVars, moduleVars>>

----------------------------------------------------------------------------
(* listDIDs *)

ListableAnything(ci) == TRUE

\* if (!ci.did || !ci.identityCode) continue; if (ci.status === 'pending') continue
Listable(ci) == ci.did # NoDID /\ ci.identityCode # "none" /\ ci.status # "pending"

ChainStateAlwaysActive(o) ==
    [did |-> o.ci.did, identityCode |-> o.ci.identityCode,
     issuanceTxid |-> IF o.ci.issuanceTxid # 0 THEN o.ci.issuanceTxid
                      ELSE IF IsTxidDID(o.ci.did) THEN Identifier(o.ci.did) ELSE 0,
     currentOutpoint |-> <<o.txid, o.index>>,
     status |-> "active"]

\* The DIDChainState listDIDs builds from one output.
ChainState(o) ==
    [did |-> o.ci.did, identityCode |-> o.ci.identityCode,
     issuanceTxid |-> IF o.ci.issuanceTxid # 0 THEN o.ci.issuanceTxid
                      ELSE IF IsTxidDID(o.ci.did) THEN Identifier(o.ci.did) ELSE 0,
     currentOutpoint |-> <<o.txid, o.index>>,
     status |-> IF o.ci.status = "deactivated" THEN "deactivated" ELSE "active"]

\* didMap.set(ci.did, ...) over the listed outputs, then Array.from(values()):
\* one entry per did, in the order the dids first appear, each built from the
\* last output that carries the did.
DidMapValues(listed) ==
    LET idx == {i \in DOMAIN listed : Listable(listed[i].ci)}
        same(i) == {j \in idx : listed[j].ci.did = listed[i].ci.did}
        firsts == {i \in idx : \A j \in same(i) : j >= i}
        nth(k) == CHOOSE i \in firsts : Cardinality({j \in firsts : j < i}) = k - 1
    IN [k \in 1..Cardinality(firsts) |-> ChainState(listed[MaxOf(same(nth(k)))])]

\* listDIDs: one listing of the default basket, then the reduction; whatever
\* throws is wrapped ("Failed to list DIDs").
ListDIDs(p) ==
    /\ proc[p].pc \in {"idle", "done"}
    /\ \E listOk \in BOOLEAN :
         LET r == [IdleProc EXCEPT !.op = "list"]
         IN proc' = [proc EXCEPT ![p] =
                IF listOk
                THEN Finish([r EXCEPT !.listing = DidMapValues(ListOutputs(DefaultBasket))],
                            "ok")
                ELSE Finish(r, "Wrapped")]
    /\ UNCHANGED <<chain, outputs, crawlVars, tierVars, moduleVars>>

----------------------------------------------------------------------------
(* The engine's specification *)

NoWorld == [len |-> 0]
NoCrawl == [pc |-> "off"]
NoRequest == [pc |-> "off"]
NoCodec == [pc |-> "off"]
NoManager == [pc |-> "off"]
NoIssuer == [pc |-> "off"]
NoOverlay == [pc |-> "off"]

Init ==
    /\ chain = <<>>
    /\ outputs = <<>>
    /\ proc = [p \in Procs |-> IdleProc]
    /\ world = NoWorld
    /\ crawl = NoCrawl
    /\ req = NoRequest
    /\ cod = NoCodec
    /\ mgr = NoManager
    /\ iss = NoIssuer
    /\ ovl = NoOverlay

Next ==
    \/ \E p \in Procs : CreateDID(p)
    \/ \E p \in Procs : IssuanceTx(p)
    \/ Propagate
    \/ \E p \in Procs : CheckIssuanceOutput(p)
    \/ \E p \in Procs : SpendPrepare(p)
    \/ \E p \in Procs : SpendSignAction(p)
    \/ \E p \in Procs : UpdateDID(p)
    \/ \E p \in Procs : DeactivateDID(p)
    \/ \E p \in Procs : ResolveDID(p)
    \/ \E p \in Procs : ResolveExternal(p)
    \/ \E p \in Procs : ListDIDs(p)

Spec == Init /\ [][Next]_vars

----------------------------------------------------------------------------
(* Chain state, as the claims speak of it *)

\* TX1 of the DID issued by txid is on the ledger: createDID got its document out.
Documented(txid) ==
    \E x \in DOMAIN chain : chain[x].kind = "document" /\ chain[x].root = txid

\* A revocation of the DID issued by txid is on the ledger: deactivateDID succeeded.
Deactivated(txid) ==
    \E x \in DOMAIN chain : chain[x].kind = "revocation" /\ chain[x].root = txid

\* The wallet's chain-state entries with status active for a DID, in any basket.
ActiveEntries(did) ==
    {i \in DOMAIN outputs : outputs[i].ci.did = did /\ outputs[i].ci.status = "active"}

\* The unspent outputs locked to the DID's chain key: its spendable chain tips.
ChainTips(txid) ==
    {x \in DOMAIN chain :
        chain[x].root = txid /\ chain[x].kind # "revocation" /\ ~IsSpent(x)}

\* The txid of the outpoint findActiveTip(did) returns; 0 for null.
TipTxid(did) ==
    IF FindActiveTip(did) = 0 THEN 0
    ELSE ListOutputs(DefaultBasket)[FindActiveTip(did)].txid

\* The wallet holds chain state carrying this DID.
LocalStateExists(did) == \E i \in DOMAIN outputs : outputs[i].ci.did = did

Started(p, ops) ==
    /\ proc[p].pc \in {"idle", "done"}
    /\ proc'[p] # proc[p]
    /\ proc'[p].op \in ops

----------------------------------------------------------------------------
(* C1 *)

\* C1: from the moment the Document transaction of a DID is on the ledger and
\* until a revocation is, the wallet holds exactly one chain-state entry with
\* status active for the DID, the DID has exactly one spendable chain tip, and
\* the entry is that tip, whatever updates ran in between.
C1_OneActiveTip ==
    \A t \in IssuedTxids :
        (Documented(t) /\ ~Deactivated(t)) =>
            /\ Cardinality(ActiveEntries(FromTxid(t))) = 1
            /\ Cardinality(ChainTips(t)) = 1
            /\ \A i \in ActiveEntries(FromTxid(t)) :
                   outputs[i].txid \in ChainTips(t) /\ outputs[i].index = 0

C1_Witness ==
    \E x \in DOMAIN chain :
        /\ chain[x].kind = "update"
        /\ ~Deactivated(chain[x].root)
        /\ Cardinality(ActiveEntries(FromTxid(chain[x].root))) = 1
        /\ ChainTips(chain[x].root) = {x}

----------------------------------------------------------------------------
(* C2 *)

\* C2: of two updateDID calls that read the same chain tip of the same DID, at
\* most one returns; the other throws; and once both have ended the DID has
\* exactly one active entry and one spendable chain tip.
C2_UpdateRace ==
    \A p, q \in Procs :
        (/\ p # q
         /\ proc[p].pc = "done" /\ proc[q].pc = "done"
         /\ proc[p].op = "update" /\ proc[q].op = "update"
         /\ proc[p].did = proc[q].did
         /\ proc[p].tip # 0 /\ proc[p].tip = proc[q].tip)
        => /\ ~(proc[p].res = "ok" /\ proc[q].res = "ok")
           /\ Cardinality(ActiveEntries(proc[p].did)) = 1
           /\ Cardinality(ChainTips(Identifier(proc[p].did))) = 1

C2_Witness ==
    \E p, q \in Procs :
        /\ p # q
        /\ proc[p].pc = "done" /\ proc[q].pc = "done"
        /\ proc[p].op = "update" /\ proc[q].op = "update"
        /\ proc[p].tip # 0 /\ proc[p].tip = proc[q].tip
        /\ proc[p].res = "ok" /\ proc[q].res = "DoubleSpend"
        /\ Cardinality(ActiveEntries(proc[p].did)) = 1

----------------------------------------------------------------------------
(* C3 *)

\* C3: once a revocation of a DID is on the ledger, findActiveTip(did) is null,
\* and every updateDID or deactivateDID call started on that DID ends in its
\* first step, throwing "No active chain state found" (or the wallet's own
\* failure when the listing itself throws), with no transaction submitted.
C3_DeactivationTerminal ==
    [][\A p \in Procs : \A t \in IssuedTxids :
          Deactivated(t) =>
             /\ FindActiveTip(FromTxid(t)) = 0
             /\ (Started(p, {"update", "deactivate"}) /\ proc'[p].did = FromTxid(t))
                  => /\ proc'[p].pc = "done"
                     /\ proc'[p].res \in {"NoActiveChainState", "Wrapped"}
                     /\ proc'[p].tip = 0
                     /\ chain' = chain
                     /\ outputs' = outputs]_vars

C3_Witness ==
    \E p \in Procs :
        /\ proc[p].pc = "done"
        /\ proc[p].op \in {"update", "deactivate"}
        /\ proc[p].res = "NoActiveChainState"
        /\ IsTxidDID(proc[p].did)
        /\ Deactivated(Identifier(proc[p].did))

----------------------------------------------------------------------------
(* C4 *)

DomainErrors == {"Wrapped", "ExpectedSignable", "NoUnlockingScript", "DoubleSpend"}

\* C4: a spend of updateDID / deactivateDID ends in one of two ways. Either it
\* returns and its transaction, spending the tip it read, is on the ledger with
\* the new state tracked; or it throws a DIDError, the ledger and the wallet's
\* outputs are as before, and the tip it read, unless another call has spent
\* it, is still what findActiveTip returns.
C4_NoPartialSpend ==
    [][\A p \in Procs :
          (/\ proc[p].pc \in {"s_prep", "s_final"}
           /\ proc[p].op \in {"update", "deactivate"}
           /\ proc'[p].pc = "done")
          => \/ /\ proc'[p].res = "ok"
                /\ Len(chain') = Len(chain) + 1
                /\ chain'[Len(chain')].input = proc[p].tip
                /\ (TipTxid(proc[p].did))' =
                      IF proc[p].op = "update" THEN Len(chain') ELSE 0
             \/ /\ proc'[p].res \in DomainErrors
                /\ chain' = chain
                /\ outputs' = outputs
                /\ ~IsSpent(proc[p].tip) => (TipTxid(proc[p].did))' = proc[p].tip]_vars

C4_Witness ==
    \E p \in Procs :
        /\ proc[p].pc = "done"
        /\ proc[p].op \in {"update", "deactivate"}
        /\ proc[p].res \in {"Wrapped", "ExpectedSignable", "NoUnlockingScript"}
        /\ proc[p].tip # 0
        /\ ~IsSpent(proc[p].tip)
        /\ TipTxid(proc[p].did) = proc[p].tip

----------------------------------------------------------------------------
(* C5 *)

\* C5: when the wallet holds chain state carrying the DID and the local listing
\* is answered, resolveDID does not go on to the external tiers (proxy,
\* resolver service, chain crawl).
C5_LocalTierPrecedence ==
    [][\A p \in Procs :
          (/\ Started(p, {"resolve"})
           /\ proc'[p].pc = "r_ext"
           /\ proc'[p].tier = "localMiss")
          => ~LocalStateExists(proc'[p].did)]_vars

----------------------------------------------------------------------------
(* The chain crawl: _resolveViaWhatsOnChain (did.ts) and resolveViaWoC        *)
(* (did-resolver.ts). The two loops are the same code; they differ in what   *)
(* a throw becomes and in where maxHops comes from.                           *)

MaxChainLen == 4
SmallHopLimit == 2

DefaultMaxHops == 100

NoTx == -1
BogusTxid == 0
NoDoc == <<>>

Payloads == {"1", "2", "3", "doc", "junk"}

\* What the indexer can serve for a DID: the spend chain TX1 -> TX2 -> ... of
\* output 0, each transaction with its BSVDID payload. TX1 is the issuance; a
\* revocation spends the chain output and leaves none, so it is last.
WellFormed(payload) ==
    /\ Len(payload) > 0 => payload[1] = "1"
    /\ \A i \in DOMAIN payload : i > 1 => payload[i] # "1"
    /\ \A i \in DOMAIN payload : payload[i] = "3" => i = Len(payload)

Chains ==
    {payload \in UNION {[1..n -> Payloads] : n \in 0..MaxChainLen} : WellFormed(payload)}

\* The crawler's configuration: did.ts has maxHops = 100; DIDResolverService
\* has config?.maxHops || 100.
Configs ==
    {[impl |-> "wallet", maxHops |-> DefaultMaxHops],
     [impl |-> "server", maxHops |-> DefaultMaxHops],
     [impl |-> "server", maxHops |-> SmallHopLimit]}

Worlds == {[payload |-> c, impl |-> k.impl, maxHops |-> k.maxHops] : c \in Chains, k \in Configs}

OnChain(txid) == txid \in DOMAIN world.payload

\* The txids an answer can name: those on the chain and one that is not.
Txids == DOMAIN world.payload \cup {BogusTxid}

\* JSON.parse(payload) of a document payload carried by txid; NoDoc when it throws.
JsonParse(kind, txid) == IF kind = "doc" THEN <<"document", txid>> ELSE NoDoc

ClassifyNoRevocation(payload) ==
    CASE payload = "3" -> "funding"
      [] payload = "2" -> "funding"
      [] payload = "1" -> "issuance"
      [] OTHER -> "document"

\* The branch the loop takes on segments[2].
Classify(payload) ==
    CASE payload = "3" -> "revocation"
      [] payload = "2" -> "funding"
      [] payload = "1" -> "issuance"
      [] OTHER -> "document"

\* GET /tx/{txid}/out/0/spend, answered truthfully: the spender, or 404.
SpentBy(txid) == IF OnChain(txid) /\ OnChain(txid + 1) THEN txid + 1 ELSE NoTx

\* GET /address/{chain address}/history, answered truthfully: every
\* transaction of the chain, with its confirmed height.
ChainHistory == [i \in DOMAIN world.payload |-> [tx_hash |-> i, height |-> i]]

\* history.filter(e => !visited.has(e.tx_hash)).sort((a, b) => b.height - a.height)[0]
PickCandidate(history, visited) ==
    LET c == SelectSeq(history, LAMBDA e : e.tx_hash \notin visited)
    IN IF c = <<>> THEN NoTx
       ELSE c[CHOOSE i \in DOMAIN c :
                 /\ \A j \in DOMAIN c : c[j].height <= c[i].height
                 /\ \A j \in DOMAIN c : j < i => c[j].height < c[i].height].tx_hash

NoResult == [document |-> NoDoc, deactivated |-> FALSE, versionId |-> NoTx, error |-> "none"]

NotFound == [NoResult EXCEPT !.error = "notFound"]

CrawlResultNoPending(c) ==
    IF c.lastDocument # NoDoc
    THEN [NoResult EXCEPT !.document = c.lastDocument, !.versionId = c.lastDocTxid]
    ELSE NotFound

\* After the loop: the last document, else "notYetAvailable" when the issuance
\* was seen, else notFound.
CrawlResult(c) ==
    IF c.lastDocument # NoDoc
    THEN [NoResult EXCEPT !.document = c.lastDocument, !.versionId = c.lastDocTxid]
    ELSE IF c.foundIssuance
    THEN [NoResult EXCEPT !.error = "notYetAvailable"]
    ELSE NotFound

Ended(c, ending, result) == [c EXCEPT !.pc = "done", !.ending = ending, !.result = result]

NeverVisited(visited, txid) == FALSE

\* if (visited.has(currentTxid)) break
Visited(visited, txid) == txid \in visited

\* From the choice of nextTxid to the next fetch: break when there is none,
\* leave the loop when hop reaches maxHops or the txid was visited, else mark
\* it visited and fetch it.
Advance(c, nextTxid) ==
    IF nextTxid = NoTx THEN Ended(c, "noNext", CrawlResult(c))
    ELSE LET d == [c EXCEPT !.currentTxid = nextTxid, !.hop = c.hop + 1]
         IN IF d.hop >= world.maxHops THEN Ended(d, "hopLimit", CrawlResult(d))
            ELSE IF Visited(d.visited, nextTxid) THEN Ended(d, "cycle", CrawlResult(d))
            ELSE [d EXCEPT !.pc = "fetch",
                           !.visited = @ \cup {nextTxid},
                           !.fetched = Append(@, nextTxid)]

\* The crawl is called with the DID's txid and issues its first fetch. Beside
\* the loop's locals the record keeps what the answers were like: crafted (some
\* answer named a txid of the answerer's choosing), blind (at some hop the
\* spend query gave no next txid and the address history was unavailable), viaSpend / viaHistory (where next hops came from), fetched (the
\* transaction fetches issued, in order), ending (what ended the crawl).
NewCrawl ==
    [pc |-> "fetch", currentTxid |-> 1, hop |-> 0, visited |-> {1}, fetched |-> <<1>>,
     lastDocument |-> NoDoc, lastDocTxid |-> NoTx, foundIssuance |-> FALSE,
     ending |-> "none", result |-> NoResult,
     crafted |-> FALSE, blind |-> FALSE, viaSpend |-> FALSE, viaHistory |-> FALSE]

\* GET /tx/{currentTxid} answers: not ok, a throw, or the transaction, whose
\* payload is classified; unless it ends the crawl the spend query is issued.
FetchAnswer ==
    /\ crawl.pc = "fetch"
    /\ LET c == crawl
           t == c.currentTxid
       IN \/ crawl' = Ended(c, "fetchFailed", NotFound)
          \/ crawl' = IF world.impl = "wallet"
                      THEN Ended(c, "threw", [NoResult EXCEPT !.error = "internalError"])
                      ELSE Ended(c, "threw", [NoResult EXCEPT !.error = "exception"])
          \/ /\ OnChain(t)
             /\ LET kind == Classify(world.payload[t])
                    doc == JsonParse(world.payload[t], t)
                IN crawl' =
                     CASE kind = "revocation" ->
                            Ended(c, "revoked",
                                  [NoResult EXCEPT !.document = c.lastDocument,
                                                   !.deactivated = TRUE,
                                                   !.versionId = t])
                       [] kind = "issuance" -> [c EXCEPT !.pc = "spend", !.foundIssuance = TRUE]
                       [] kind = "document" /\ doc # NoDoc ->
                            [c EXCEPT !.pc = "spend", !.lastDocument = doc, !.lastDocTxid = t]
                       [] OTHER -> [c EXCEPT !.pc = "spend"]
    /\ UNCHANGED <<engineVars, world, tierVars, moduleVars>>

\* GET /tx/{currentTxid}/out/0/spend answers: truthfully, not at all (404, an
\* error status, a throw), or with a txid of the answerer's choosing. Without a
\* next txid the address history is asked for.
SpendAnswer ==
    /\ crawl.pc = "spend"
    /\ \E answer \in {"truthful", "unavailable", "crafted"}, x \in Txids :
         LET c == crawl
             nextTxid == CASE answer = "truthful" -> SpentBy(c.currentTxid)
                           [] answer = "unavailable" -> NoTx
                           [] OTHER -> x
         IN /\ IF answer = "crafted" THEN x # SpentBy(c.currentTxid) ELSE x = BogusTxid
            /\ crawl' =
                 IF nextTxid # NoTx
                 THEN Advance([c EXCEPT !.crafted = @ \/ (answer = "crafted"),
                                       !.viaSpend = TRUE], nextTxid)
                 ELSE [c EXCEPT !.pc = "history"]
    /\ UNCHANGED <<engineVars, world, tierVars, moduleVars>>

\* GET /address/{out0Addr}/history answers: truthfully, not at all, or with an
\* entry of the answerer's choosing.
HistoryAnswer ==
    /\ crawl.pc = "history"
    /\ \E answer \in {"truthful", "unavailable", "crafted"}, x \in Txids :
         LET c == crawl
             history == CASE answer = "truthful" -> ChainHistory
                          [] answer = "unavailable" -> <<>>
                          [] OTHER -> <<[tx_hash |-> x, height |-> 0]>>
             nextTxid == PickCandidate(history, c.visited)
         IN /\ answer # "crafted" => x = BogusTxid
            /\ crawl' = Advance([c EXCEPT !.crafted = @ \/ (answer = "crafted"),
                                          !.blind = @ \/ (answer = "unavailable"),
                                          !.viaHistory = @ \/ (nextTxid # NoTx)],
                                nextTxid)
    /\ UNCHANGED <<engineVars, world, tierVars, moduleVars>>

CrawlInit ==
    /\ chain = <<>>
    /\ outputs = <<>>
    /\ proc = [p \in Procs |-> IdleProc]
    /\ world \in Worlds
    /\ crawl = NewCrawl
    /\ req = NoRequest
    /\ cod = NoCodec
    /\ mgr = NoManager
    /\ iss = NoIssuer
    /\ ovl = NoOverlay

CrawlNext ==
    \/ FetchAnswer
    \/ SpendAnswer
    \/ HistoryAnswer

\* Every request the crawl awaits is eventually answered (or fails).
CrawlSpec == CrawlInit /\ [][CrawlNext]_vars /\ WF_vars(CrawlNext)

----------------------------------------------------------------------------
(* The chain, as the claims on the crawl speak of it *)

DocTxids == {i \in DOMAIN world.payload : world.payload[i] = "doc"}

Revoked == \E i \in DOMAIN world.payload : world.payload[i] = "3"

\* The document carried by the latest document transaction in spend order.
CurrentDocument == IF DocTxids = {} THEN NoDoc ELSE <<"document", MaxOf(DocTxids)>>

\* Every transaction fetch was answered with the transaction.
FetchesAnswered == crawl.ending \notin {"fetchFailed", "threw"}

----------------------------------------------------------------------------
(* C6 *)

----------------------------------------------------------------------------
(* C7 *)

\* C7: once a hop has recorded a document, the crawl's result carries the most
\* recently recorded document, whatever ends the crawl (stated here for
\* answers that are not crafted).
C7_LastDocumentReturned ==
    (/\ crawl.pc = "done"
     /\ crawl.lastDocument # NoDoc
     /\ ~crawl.crafted)
    => /\ crawl.result.document = crawl.lastDocument
       /\ crawl.result.error # "notFound"

----------------------------------------------------------------------------
(* C8 *)

\* C8: for an unrevoked chain, when the answers are not crafted, every fetch is
\* answered, the hop limit is not hit and the address history is answered
\* whenever the spend query gives no next txid, the crawl returns the document
\* of the latest document transaction in spend order.
C8_CurrentDocument ==
    (/\ crawl.pc = "done"
     /\ ~Revoked
     /\ DocTxids # {}
     /\ ~crawl.crafted /\ ~crawl.blind
     /\ FetchesAnswered
     /\ crawl.ending # "hopLimit")
    => crawl.result.document = CurrentDocument

----------------------------------------------------------------------------
(* C9 *)

\* C9: the crawl ends; it fetches no txid twice and issues at most maxHops
\* fetches, whatever the answers; and when the loop is left (no next hop, a
\* revisited txid, the hop limit) the result carries the last document
\* recorded, if any.
C9_CrawlTerminates ==
    /\ [](/\ \A i, j \in DOMAIN crawl.fetched :
                i # j => crawl.fetched[i] # crawl.fetched[j]
          /\ Len(crawl.fetched) <= world.maxHops
          /\ crawl.hop <= world.maxHops
          /\ (crawl.pc = "done" /\ crawl.ending \in {"noNext", "cycle", "hopLimit"}
                /\ crawl.lastDocument # NoDoc)
               => (crawl.result.document = crawl.lastDocument
                   /\ crawl.result.error = "none"))
    /\ <>(crawl.pc = "done")

C9_Witness ==
    /\ crawl.pc = "done"
    /\ crawl.ending = "cycle"
    /\ crawl.crafted
    /\ crawl.lastDocument # NoDoc
    /\ crawl.result.document = crawl.lastDocument

----------------------------------------------------------------------------
(* C10 *)

\* C10: when the fetched transaction carries payload "3", the crawl stops there:
\* it follows no further hop and returns the last document seen with
\* deactivated: true.
C10_RevocationStops ==
    [][(/\ crawl.pc = "fetch"
        /\ OnChain(crawl.currentTxid)
        /\ world.payload[crawl.currentTxid] = "3"
        /\ crawl'.ending \notin {"fetchFailed", "threw"})
       => /\ crawl'.pc = "done"
          /\ crawl'.ending = "revoked"
          /\ crawl'.result.deactivated
          /\ crawl'.result.document = crawl.lastDocument
          /\ crawl'.result.versionId = crawl.currentTxid
          /\ crawl'.result.error = "none"
          /\ crawl'.fetched = crawl.fetched]_vars

C10_Witness ==
    /\ crawl.pc = "done"
    /\ crawl.ending = "revoked"
    /\ crawl.result.deactivated
    /\ crawl.result.document # NoDoc
    /\ crawl.result.document = crawl.lastDocument

----------------------------------------------------------------------------
(* C11 *)

\* C11: createDID looks for the issuance output at most 3 times; it goes on to
\* the Document transaction only after a look that found TX0 output 0 listed in
\* the basket (so within the 3 looks); and a createDID that missed 3 times has
\* thrown "Issuance output not found in basket after retries" with no Document
\* transaction of that DID on the ledger.
C11_BoundedVisibilityRetry ==
    \A p \in Procs :
        proc[p].op = "create" =>
            /\ proc[p].attempt <= RetryLimit
            /\ proc[p].pc = "c_wait" => proc[p].attempt < RetryLimit
            /\ proc[p].pc \in {"s_prep", "s_final"} =>
                    /\ proc[p].attempt < RetryLimit
                    /\ \E i \in DOMAIN outputs :
                          /\ outputs[i].txid = proc[p].issuanceTxid /\ outputs[i].index = 0
                          /\ outputs[i].basket = proc[p].basket /\ outputs[i].visible
            /\ (proc[p].pc = "done" /\ proc[p].res = "ok") =>
                    /\ proc[p].attempt < RetryLimit
                    /\ Documented(proc[p].issuanceTxid)
            /\ (proc[p].pc = "done" /\ proc[p].res = "NotFoundAfterRetries") =>
                    /\ proc[p].attempt = RetryLimit
                    /\ ~Documented(Identifier(proc[p].did))
            /\ (proc[p].pc = "done" /\ proc[p].attempt = RetryLimit) =>
                    proc[p].res = "NotFoundAfterRetries"

C11_Witness ==
    \E p, q \in Procs :
        /\ proc[p].op = "create" /\ proc[p].pc = "done"
        /\ proc[p].res = "NotFoundAfterRetries" /\ proc[p].attempt = RetryLimit
        /\ proc[q].op = "create" /\ proc[q].pc = "done" /\ proc[q].res = "ok"
        /\ proc[q].attempt = RetryLimit - 1

----------------------------------------------------------------------------
(* The resolution tiers: resolveDID of the wallet (did.ts) and the resolution *)
(* service behind the HTTP handler (did-resolver.ts)                          *)

\* The did strings a caller passes: a 64-hex lowercase txid DID, the same in
\* upper case, a legacy DID of 66 hex characters that are a compressed public
\* key, 66 hex characters that are not a point of the curve, a string that is
\* no did:bsv DID, and (for the handler) no did parameter at all.
DIDInputs == {"txid", "txidUpper", "legacy", "legacyOffCurve", "malformed", "missing"}

\* DID.parse: /^[0-9a-f]{64}$/ or /^[0-9a-fA-F]{66}$/, else it throws.
Parse(did) ==
    CASE did = "txid" -> "txid"
      [] did \in {"legacy", "legacyOffCurve"} -> "legacy"
      [] OTHER -> "throws"

\* did.match(/^did:bsv:([0-9a-f]{64})$/i) of the service.
TxidMatch(did) == did \in {"txid", "txidUpper"}

\* What an HTTP endpoint answers: a status and a body. The body is JSON with or
\* without a didDocument, a didDocumentMetadata.deactivated flag and a
\* didResolutionMetadata.error, or it is not JSON at all.
Garbage == [json |-> FALSE, doc |-> FALSE, deactivated |-> FALSE, error |-> "none"]

Bodies ==
    {[json |-> TRUE, doc |-> d, deactivated |-> x, error |-> e] :
        d \in BOOLEAN, x \in BOOLEAN, e \in {"none", "notFound", "internalError"}}
    \cup {Garbage}

Statuses == {200, 201, 404, 410, 500}

\* fetch rejects: network error, DNS failure, CORS, abort.
Rejected == [status |-> 0, body |-> Garbage]

Responses == {[status |-> st, body |-> b] : st \in Statuses, b \in Bodies} \cup {Rejected}

ResponseOkOnly200(resp) == resp.status = 200

\* response.ok: the status is in the range 200-299.
ResponseOk(resp) == resp.status >= 200 /\ resp.status <= 299

\* A DIDResolutionResult: has a document, the deactivated flag, the error, and
\* the tier that produced it.
Result(doc, deactivated, error, via) ==
    [doc |-> doc, deactivated |-> deactivated, error |-> error, via |-> via]

NoTierResult == Result(FALSE, FALSE, "none", "none")

\* What _resolveViaWhatsOnChain / resolveViaWoC can return (see CrawlResult).
CrawlOutcomes ==
    {Result(TRUE, FALSE, "none", "crawl"), Result(TRUE, TRUE, "none", "crawl"),
     Result(FALSE, TRUE, "none", "crawl"), Result(FALSE, FALSE, "notYetAvailable", "crawl"),
     Result(FALSE, FALSE, "notFound", "crawl")}

StatusNoNotFound(result) ==
    CASE result.error = "internalError" -> 502
      [] OTHER -> 200

\* The handler: error notFound -> 404, internalError -> 502, else 200.
HandlerStatus(result) ==
    CASE result.error = "notFound" -> 404
      [] result.error = "internalError" -> 502
      [] OTHER -> 200

NewRequest(side, did, proxy, resolver, hung) ==
    [pc |-> IF side = "wallet" THEN "parse" ELSE "handler",
     side |-> side, did |-> did, proxyUrl |-> proxy, resolverUrl |-> resolver,
     hung |-> hung, calls |-> <<>>, proxy |-> "none", resp |-> Rejected,
     answered |-> FALSE,
     result |-> NoTierResult, threw |-> "none", status |-> 0]

\* The call returns result. On the service side the handler maps it to a status
\* in the same step (no await between).
Return(r, result) ==
    [r EXCEPT !.pc = "done", !.result = result,
              !.status = IF r.side = "service" THEN HandlerStatus(result) ELSE 0]

\* The call throws. The handler's catch answers 502 with internalError.
Throw(r, err) ==
    IF r.side = "service"
    THEN [r EXCEPT !.pc = "done", !.threw = err,
                   !.result = Result(FALSE, FALSE, "internalError", "handler"),
                   !.status = 502]
    ELSE [r EXCEPT !.pc = "done", !.threw = err]

\* Where resolveDID goes after the local tier, and after the proxy.
AfterLocal(r) ==
    IF r.proxyUrl THEN "proxy" ELSE IF r.resolverUrl THEN "resolver" ELSE "crawl"

AfterProxy(r) == IF r.resolverUrl THEN "resolver" ELSE "crawl"

\* resolveDID, first lines: DID.parse throws on a malformed DID; a legacy DID is
\* answered at once from DID.fromIdentityKey and pubKeyToJwk (which hands the
\* 66 hex characters to PublicKey.fromString: for characters that are not a
\* point of the curve the library returns or throws).
ParseDID ==
    /\ req.pc = "parse"
    /\ \/ /\ Parse(req.did) = "throws"
          /\ req' = Throw(req, "InvalidDID")
       \/ /\ Parse(req.did) = "legacy"
          /\ req' = Return(req, Result(TRUE, FALSE, "none", "legacy"))
       \/ /\ req.did = "legacyOffCurve"
          /\ req' = Throw(req, "Error")
       \/ /\ Parse(req.did) = "txid"
          /\ req' = [req EXCEPT !.pc = "local"]
    /\ UNCHANGED <<engineVars, crawlVars, moduleVars>>

\* The local tier: _resolveFromBasket returns a result, returns null, or throws
\* (swallowed).
LocalTier ==
    /\ req.pc = "local"
    /\ \E local \in {"active", "deactivated", "null", "throws"} :
         req' = CASE local = "active" -> Return(req, Result(TRUE, FALSE, "none", "local"))
                  [] local = "deactivated" -> Return(req, Result(TRUE, TRUE, "none", "local"))
                  [] OTHER -> [req EXCEPT !.pc = AfterLocal(req)]
    /\ UNCHANGED <<engineVars, crawlVars, moduleVars>>

\* The proxy tier of resolveDID: the answer is used when it is ok, parses, and
\* carries a document or the deactivated flag; anything else falls through.
ProxyTier ==
    /\ req.pc = "proxy"
    /\ \E resp \in Responses :
         LET r == [req EXCEPT !.calls = Append(@, "proxy"),
                              !.proxy = IF resp = Rejected THEN "unreachable"
                                        ELSE "answered"]
             b == resp.body
         IN req' = IF ResponseOk(resp) /\ b.json /\ (b.doc \/ b.deactivated)
                   THEN Return(r, Result(b.doc, b.deactivated, b.error, "proxy"))
                   ELSE [r EXCEPT !.pc = AfterProxy(r)]
    /\ UNCHANGED <<engineVars, crawlVars, moduleVars>>

\* After the resolver tier gave nothing: resolveDID goes to the crawl; the
\* service goes to the crawl for a txid DID and returns notFound otherwise.
FallThrough(r) ==
    IF r.side = "wallet" \/ TxidMatch(r.did)
    THEN [r EXCEPT !.pc = "crawl"]
    ELSE Return(r, Result(FALSE, FALSE, "notFound", "service"))

\* The resolver tier answers (both sides): ok -> the body's document and
\* metadata (data.didDocument || data); 410 -> deactivated; a body that does not
\* parse, another status or a rejected fetch is caught and falls through.
ResolverTier ==
    /\ req.pc = "resolver"
    /\ ~req.hung
    /\ \E resp \in Responses :
         LET r == [req EXCEPT !.calls = Append(@, "resolver"), !.resp = resp,
                              !.answered = TRUE]
             b == resp.body
         IN req' = IF ResponseOk(resp) /\ b.json
                   THEN Return(r, Result(TRUE, b.deactivated, b.error, "resolver"))
                   ELSE IF ~ResponseOk(resp) /\ resp.status = 410
                   THEN Return(r, Result(b.doc, TRUE, b.error, "resolver"))
                   ELSE FallThrough(r)
    /\ UNCHANGED <<engineVars, crawlVars, moduleVars>>

\* signal: AbortSignal.timeout(this.resolverTimeout), set by the service only:
\* the fetch of an endpoint that never answers is aborted and the catch falls
\* through.
ResolverTimeout ==
    /\ req.pc = "resolver"
    /\ req.hung
    /\ req.side = "service"
    /\ req' = FallThrough([req EXCEPT !.calls = Append(@, "resolver")])
    /\ UNCHANGED <<engineVars, crawlVars, moduleVars>>

\* The chain crawl answers. _resolveViaWhatsOnChain catches what it throws and
\* returns internalError; resolveViaWoC lets it through to the handler.
CrawlTier ==
    /\ req.pc = "crawl"
    /\ LET r == [req EXCEPT !.calls = Append(@, "crawl")]
       IN \/ \E out \in CrawlOutcomes : req' = Return(r, out)
          \/ /\ r.side = "wallet"
             /\ req' = Return(r, Result(FALSE, FALSE, "internalError", "crawl"))
          \/ /\ r.side = "service"
             /\ req' = Throw(r, "Error")
    /\ UNCHANGED <<engineVars, crawlVars, moduleVars>>

\* GET of createDIDResolverHandler: no did parameter -> 400; else resolver.resolve.
HandlerGET ==
    /\ req.pc = "handler"
    /\ req' = IF req.did = "missing"
              THEN [req EXCEPT !.pc = "done", !.status = 400]
              ELSE [req EXCEPT !.pc = "resolver"]
    /\ UNCHANGED <<engineVars, crawlVars, moduleVars>>

\* One call: resolveDID(did) of a wallet configured with or without a proxy and
\* a resolver URL, or one GET of the service's handler; the resolver endpoint
\* answers or never does.
Requests ==
    {NewRequest("wallet", did, proxy, resolver, hung) :
        did \in DIDInputs \ {"missing"}, proxy \in BOOLEAN, resolver \in BOOLEAN,
        hung \in BOOLEAN}
    \cup {NewRequest("service", did, FALSE, TRUE, hung) :
            did \in DIDInputs, hung \in BOOLEAN}

TierInit ==
    /\ chain = <<>>
    /\ outputs = <<>>
    /\ proc = [p \in Procs |-> IdleProc]
    /\ world = NoWorld
    /\ crawl = NoCrawl
    /\ req \in Requests
    /\ cod = NoCodec
    /\ mgr = NoManager
    /\ iss = NoIssuer
    /\ ovl = NoOverlay

TierNext ==
    \/ ParseDID
    \/ LocalTier
    \/ ProxyTier
    \/ ResolverTier
    \/ ResolverTimeout
    \/ CrawlTier
    \/ HandlerGET

TierSpec == TierInit /\ [][TierNext]_vars

----------------------------------------------------------------------------
(* C12 *)

\* The resolver tier of a txid DID has answered and the call has ended.
ResolverAnswered ==
    /\ req.pc = "done" /\ req.answered
    /\ req.did = "txid" \/ (req.side = "service" /\ req.did = "txidUpper")

\* The call went on to the chain crawl, and what ended it is the crawl's answer.
FellThroughToCrawl ==
    /\ req.calls[Len(req.calls)] = "crawl"
    /\ \/ req.threw = "none" /\ req.result.via = "crawl"
       \/ req.side = "service" /\ req.threw = "Error" /\ req.result.via = "handler"

----------------------------------------------------------------------------
(* C13 *)

\* C13: a resolver endpoint that never answers does not block the resolution of
\* a txid DID: while the call waits for the resolver, something (an answer or
\* the request's timeout) will take it further.
C13_HungResolverCannotBlock ==
    (req.pc = "resolver" /\ req.hung /\ req.did = "txid") => ENABLED TierNext

----------------------------------------------------------------------------
(* C14 *)

\* C14: a legacy DID (did:bsv:<66 hex characters of a compressed public key>)
\* resolves to its reconstructed document, with no network call made and no
\* error, on whichever side it is asked.
C14_LegacyNoNetwork ==
    (req.pc = "done" /\ req.did = "legacy") =>
        /\ req.calls = <<>>
        /\ req.threw = "none"
        /\ req.result.doc /\ req.result.error = "none"

----------------------------------------------------------------------------
(* C20 *)

\* C20: the status the resolution handler answers is decided by the outcome
\* alone: no did parameter -> 400; the resolver threw -> 502 with internalError;
\* otherwise error notFound -> 404, internalError -> 502, anything else (a
\* document, deactivated, notYetAvailable) -> 200; and no other status occurs.
C20_HandlerStatusTotal ==
    (req.side = "service" /\ req.pc = "done") =>
        /\ req.status \in {200, 400, 404, 502}
        /\ req.status = 400 <=> req.did = "missing"
        /\ req.threw # "none" => req.status = 502 /\ req.result.error = "internalError"
        /\ req.result.error = "notFound" <=> req.status = 404
        /\ req.result.error = "internalError" <=> req.status = 502
        /\ (req.did # "missing" /\ req.result.error \notin {"notFound", "internalError"})
               => req.status = 200

C20_Witness ==
    /\ req.side = "service" /\ req.pc = "done"
    /\ req.result.error = "notYetAvailable" /\ req.status = 200
    /\ req.calls = <<"resolver", "crawl">>

----------------------------------------------------------------------------
(* C15 *)

\* C15: whatever Updates ran, what an updateDID returns names the DID as Issue
\* did: result.did is the DID of the issuance transaction, result.txid is that
\* issuance txid and result.identityCode is the identityCode written at
\* issuance, and the document's id is the did; the same holds of every chain
\* state entry the wallet keeps. Only the outpoint and the document change.
C15_UpdateKeepsIdentity ==
    /\ \A p \in Procs :
          (proc[p].pc = "done" /\ proc[p].op = "update" /\ proc[p].res = "ok") =>
              /\ proc[p].issuanceTxid \in IssuedTxids
              /\ proc[p].did = FromTxid(proc[p].issuanceTxid)
              /\ proc[p].identityCode = chain[proc[p].issuanceTxid].code
              /\ proc[p].document.id = proc[p].did
    /\ \A i \in DOMAIN outputs :
          outputs[i].ci.did # NoDID =>
              /\ outputs[i].ci.issuanceTxid \in IssuedTxids
              /\ outputs[i].ci.did = FromTxid(outputs[i].ci.issuanceTxid)
              /\ outputs[i].ci.identityCode = chain[outputs[i].ci.issuanceTxid].code
              /\ chain[outputs[i].txid].root = outputs[i].ci.issuanceTxid

C15_Witness ==
    \E p \in Procs :
        /\ proc[p].pc = "done" /\ proc[p].op = "update" /\ proc[p].res = "ok"
        /\ \E x, y \in DOMAIN chain :
             /\ x < y
             /\ chain[x].kind = "update" /\ chain[y].kind = "update"
             /\ chain[x].root = proc[p].issuanceTxid
             /\ chain[y].root = proc[p].issuanceTxid
             /\ chain[y].input = x

----------------------------------------------------------------------------
(* C16 *)

\* The last transaction on the ledger of the DID issued by txid.
LastTxOf(txid) == MaxOf({x \in DOMAIN chain : chain[x].root = txid})

----------------------------------------------------------------------------
(* C17 *)

\* C17: no entry listDIDs returns comes from a pending chain-state entry: every
\* entry names a DID, and its outpoint is never the output of an issuance
\* transaction, be the Issue still under way, failed or done.
C17_PendingNeverListed ==
    \A p \in Procs :
        (proc[p].pc = "done" /\ proc[p].op = "list" /\ proc[p].res = "ok") =>
            \A k \in DOMAIN proc[p].listing :
                /\ proc[p].listing[k].did # NoDID
                /\ chain[proc[p].listing[k].currentOutpoint[1]].kind # "issuance"

C17_Witness ==
    \E p, q \in Procs :
        /\ proc[p].pc = "done" /\ proc[p].op = "list" /\ proc[p].res = "ok"
        /\ proc[p].listing = <<>>
        /\ proc[q].pc = "done" /\ proc[q].op = "create"
        /\ proc[q].res \in {"Wrapped", "ExpectedSignable", "NoUnlockingScript"}
        /\ \E i \in DOMAIN outputs :
              /\ outputs[i].ci.status = "pending" /\ outputs[i].visible
              /\ outputs[i].basket = DefaultBasket

----------------------------------------------------------------------------
(* C18 *)

\* C18: once createDID has returned a DID (its Document transaction is on the
\* ledger), a resolveDID of that DID whose local listing is answered is
\* answered by the local tier, with a document whose id is the DID.
C18_IssueThenResolveLocal ==
    [][\A p \in Procs :
          (/\ Started(p, {"resolve"})
           /\ IsTxidDID(proc'[p].did)
           /\ Documented(Identifier(proc'[p].did))
           /\ proc'[p].tier # "localThrew")
          => /\ proc'[p].tier = "local"
             /\ proc'[p].document.id = proc'[p].did]_vars

----------------------------------------------------------------------------
(* C19 *)

\* C19: once a DID is deactivated (its revocation is on the ledger), a
\* resolveDID of it whose local listing is answered returns from the local tier
\* with deactivated true and the document rebuilt from the stored metadata (or
\* none).
C19_DeactivateThenResolve ==
    [][\A p \in Procs :
          (/\ Started(p, {"resolve"})
           /\ IsTxidDID(proc'[p].did)
           /\ Deactivated(Identifier(proc'[p].did))
           /\ proc'[p].tier # "localThrew")
          => /\ proc'[p].pc = "done" /\ proc'[p].res = "ok"
             /\ proc'[p].tier = "local"
             /\ proc'[p].deactivated
             /\ \/ proc'[p].document = NoDocument
                \/ proc'[p].document.id = proc'[p].did]_vars

C19_Witness ==
    \E p \in Procs :
        /\ proc[p].pc = "done" /\ proc[p].op = "resolve" /\ proc[p].res = "ok"
        /\ proc[p].tier = "local" /\ proc[p].deactivated
        /\ Deactivated(Identifier(proc[p].did))
        /\ proc[p].document.id = proc[p].did

----------------------------------------------------------------------------
(* The OP_RETURN codec: buildOpReturn (modules/did.ts) and the resolver     *)
(* service's parseOpReturnSegments (server/did-resolver.ts).  A script is a  *)
(* sequence of bytes 0..255; a string is the sequence of its UTF-8 bytes    *)
(* (one byte per printable ASCII character).  The decoder's loop is one     *)
(* action per iteration, with the loop's locals `i` and `segments` in cod.  *)

MaxScriptLen == 6

OP_FALSE == 0
OP_RETURN == 106
OP_PUSHDATA1 == 76
OP_PUSHDATA2 == 77
OP_PUSHDATA4 == 78

\* 'BSVDID' as UTF-8 bytes.
BSVDID_MARKER == <<66, 83, 86, 68, 73, 68>>

Repeat(b, n) == [k \in 1..n |-> b]

\* The strings buildOpReturn is given: empty, short, one holding the byte 0x6a
\* ('j'), and one on each side of the push-opcode boundaries at 76 and 256.
Strings ==
    {<<>>, <<65>>, <<106, 49>>, Repeat(65, 75), Repeat(65, 76),
     Repeat(66, 255), Repeat(66, 256)}

\* Every push as a direct push whose opcode is the length.
WriteBinDirect(bin) == <<Len(bin) % 256>> \o bin

\* Script.writeBin: the minimal push for the data's length; an empty array is
\* written as OP_0 with no data.
WriteBin(bin) ==
    CASE Len(bin) = 0 -> <<OP_FALSE>>
      [] Len(bin) > 0 /\ Len(bin) < OP_PUSHDATA1 -> <<Len(bin)>> \o bin
      [] Len(bin) >= OP_PUSHDATA1 /\ Len(bin) < 256 ->
            <<OP_PUSHDATA1, Len(bin)>> \o bin
      [] Len(bin) >= 256 /\ Len(bin) < 65536 ->
            <<OP_PUSHDATA2, Len(bin) % 256, Len(bin) \div 256>> \o bin
      [] OTHER ->
            <<OP_PUSHDATA4, Len(bin) % 256, (Len(bin) \div 256) % 256,
              (Len(bin) \div 65536) % 256, Len(bin) \div 16777216>> \o bin

buildOpReturn(identityCode, payload) ==
    <<OP_FALSE, OP_RETURN>> \o WriteBin(BSVDID_MARKER) \o WriteBin(identityCode)
        \o WriteBin(payload)

\* bytes[i] of a JavaScript array: undefined (here -1) outside the array.
ByteAt(bytes, i) == IF i >= 0 /\ i < Len(bytes) THEN bytes[i + 1] ELSE -1

\* Array.prototype.slice(start, end): negative indices count from the end.
Slice(bytes, start, end) ==
    LET n == Len(bytes)
        rel(x) == IF x < 0 THEN (IF n + x < 0 THEN 0 ELSE n + x)
                  ELSE (IF x > n THEN n ELSE x)
        from == rel(start)
        to == rel(end)
    IN  IF from < to THEN [k \in 1..(to - from) |-> bytes[from + k]] ELSE <<>>

\* b0 | (b1 << 8) | (b2 << 16) | (b3 << 24): a signed 32-bit integer.
Int32LE(b0, b1, b2, b3) ==
    b0 + b1 * 256 + b2 * 65536 + (IF b3 >= 128 THEN b3 - 256 ELSE b3) * 16777216

\* The opcode's length header: <<ok, len, i after the header>>; not ok is the
\* loop's break (truncated header, or an opcode that is not a push).
PushLength(bytes, op, i) ==
    CASE op >= 1 /\ op <= 75 -> <<TRUE, op, i>>
      [] op = OP_PUSHDATA1 ->
            IF i >= Len(bytes) THEN <<FALSE, 0, i>>
            ELSE <<TRUE, ByteAt(bytes, i), i + 1>>
      [] op = OP_PUSHDATA2 ->
            IF i + 1 >= Len(bytes) THEN <<FALSE, 0, i>>
            ELSE <<TRUE, ByteAt(bytes, i) + ByteAt(bytes, i + 1) * 256, i + 2>>
      [] op = OP_PUSHDATA4 ->
            IF i + 3 >= Len(bytes) THEN <<FALSE, 0, i>>
            ELSE <<TRUE, Int32LE(ByteAt(bytes, i), ByteAt(bytes, i + 1),
                                 ByteAt(bytes, i + 2), ByteAt(bytes, i + 3)),
                   i + 4>>
      [] OTHER -> <<FALSE, 0, i>>

\* A call of parseOpReturnSegments on the script `bytes`; mode "built" is the
\* script buildOpReturn made from (identityCode, payload), mode "raw" any bytes.
NewParse(mode, identityCode, payload, bytes) ==
    [pc |-> "scan", mode |-> mode, identityCode |-> identityCode,
     payload |-> payload, bytes |-> bytes, i |-> 0, segments |-> <<>>,
     iterations |-> 0, result |-> <<>>]

\* The scan for the first OP_RETURN byte; without one, or with nothing after
\* it, the result is [].
ScanOpReturn ==
    /\ cod.pc = "scan"
    /\ LET hits == {k \in 0..(Len(cod.bytes) - 1) : ByteAt(cod.bytes, k) = OP_RETURN}
           i == IF hits = {} THEN Len(cod.bytes)
                ELSE (CHOOSE k \in hits : \A h \in hits : k <= h) + 1
       IN  IF i >= Len(cod.bytes)
           THEN cod' = [cod EXCEPT !.pc = "done", !.i = i, !.result = <<>>]
           ELSE cod' = [cod EXCEPT !.pc = "loop", !.i = i]
    /\ UNCHANGED <<engineVars, crawlVars, tierVars, mgr, iss, ovl>>

\* The loop's exit when i has reached the end of the script.
ParseEnd ==
    /\ cod.pc = "loop"
    /\ ~(cod.i < Len(cod.bytes))
    /\ cod' = [cod EXCEPT !.pc = "done", !.result = cod.segments]
    /\ UNCHANGED <<engineVars, crawlVars, tierVars, mgr, iss, ovl>>

\* One iteration of `while (i < bytes.length)`.  The model follows the loop for
\* one iteration more than the script has bytes and no further.
ParseChunk ==
    /\ cod.pc = "loop"
    /\ cod.i < Len(cod.bytes)
    /\ cod.iterations <= Len(cod.bytes)
    /\ LET op == ByteAt(cod.bytes, cod.i)
           hdr == PushLength(cod.bytes, op, cod.i + 1)
           len == hdr[2]
           i == hdr[3]
       IN  IF ~hdr[1] \/ i + len > Len(cod.bytes)
           THEN cod' = [cod EXCEPT !.pc = "done", !.result = cod.segments,
                                   !.iterations = @ + 1]
           ELSE cod' = [cod EXCEPT !.i = i + len,
                           !.segments = Append(@, Slice(cod.bytes, i, i + len)),
                           !.iterations = @ + 1]
    /\ UNCHANGED <<engineVars, crawlVars, tierVars, mgr, iss, ovl>>

\* Scripts that are not buildOpReturn's: an OP_RETURN followed by any bytes of
\* a small alphabet (push opcodes, length bytes with and without the top bit),
\* and short scripts without an OP_RETURN.
RawBytes == {1, OP_PUSHDATA1, OP_PUSHDATA4, OP_RETURN, 251, 255}

RECURSIVE SeqsUpTo(_, _)
SeqsUpTo(S, n) ==
    IF n = 0 THEN {<<>>}
    ELSE LET shorter == SeqsUpTo(S, n - 1)
         IN  shorter \cup {Append(q, b) : q \in {r \in shorter : Len(r) = n - 1}, b \in S}

RawScripts ==
    {<<OP_RETURN>> \o t : t \in SeqsUpTo(RawBytes, MaxScriptLen - 1)}
        \cup SeqsUpTo({1, OP_PUSHDATA1}, 2)

Parses ==
    {NewParse("built", c, d, buildOpReturn(c, d)) : c \in Strings, d \in Strings}
        \cup {NewParse("raw", <<>>, <<>>, b) : b \in RawScripts}

CodecInit ==
    /\ chain = <<>>
    /\ outputs = <<>>
    /\ proc = [p \in Procs |-> IdleProc]
    /\ world = NoWorld
    /\ crawl = NoCrawl
    /\ req = NoRequest
    /\ cod \in Parses
    /\ mgr = NoManager
    /\ iss = NoIssuer
    /\ ovl = NoOverlay

CodecNext ==
    \/ ScanOpReturn
    \/ ParseChunk
    \/ ParseEnd

CodecSpec == CodecInit /\ [][CodecNext]_vars

----------------------------------------------------------------------------
(* C21 *)

----------------------------------------------------------------------------
(* C22 *)

\* C22: the decoder ends on every script: its loop consumes at least one byte
\* per iteration, so it never runs more iterations than the script has bytes.
C22_DecodeTerminates ==
    cod.pc # "off" => cod.iterations <= Len(cod.bytes)

----------------------------------------------------------------------------
(* C23 *)

\* C23: a resolveDID answered by the local tier for an active DID returns the
\* document that the call which made the DID's latest transaction (createDID or
\* updateDID, still holding what it returned) published in it.
C23_LocalResolveIsPublished ==
    [][\A p, q \in Procs :
          (/\ Started(p, {"resolve"})
           /\ proc'[p].tier = "local" /\ ~proc'[p].deactivated
           /\ q # p
           /\ proc[q].pc = "done" /\ proc[q].res = "ok"
           /\ proc[q].op \in {"create", "update"}
           /\ proc[q].did = proc'[p].did
           /\ chain[LastTxOf(Identifier(proc'[p].did))].input = proc[q].tip)
          => proc'[p].document = proc[q].document]_vars

----------------------------------------------------------------------------
(* C24 *)

SeqRange(q) == {q[k] : k \in DOMAIN q}

\* C24: the document an updateDID publishes still lists every service and
\* every additional key recorded with the chain state the update spends.
C24_UpdateMerges ==
    [][\A p \in Procs :
          (/\ proc[p].pc = "s_final" /\ proc[p].op = "update"
           /\ proc'[p].pc = "done" /\ proc'[p].res = "ok")
          => \A i \in DOMAIN outputs :
                (outputs[i].txid = proc[p].tip /\ outputs[i].index = 0)
                => /\ SeqRange(outputs[i].ci.services)
                        \subseteq SeqRange(proc'[p].document.service)
                   /\ SeqRange(outputs[i].ci.additionalKeys)
                        \subseteq SeqRange(proc'[p].document.verificationMethod)]_vars

----------------------------------------------------------------------------
(* C25 *)

\* C25: when a proxy is configured and its fetch was answered (with whatever
\* status and body), resolveDID makes no other call: neither the direct
\* resolver nor WhatsOnChain.
C25_ProxyAnswerIsEnough ==
    (req.pc # "off" /\ req.side = "wallet" /\ req.proxy = "answered")
        => SeqRange(req.calls) \subseteq {"proxy"}

----------------------------------------------------------------------------
(* The server wallet manager (server-wallet-manager: ServerWalletManager and *)
(* the GET/POST handlers of createServerWalletHandler).  mgr holds the       *)
(* manager's fields wallet and initPromise, every initialization started    *)
(* (the async function behind an initPromise), the key file, and the        *)
(* requests being handled.  A wallet instance is named by the               *)
(* initialization that created it; 0 is null.  Continuations of a settled   *)
(* promise run before the next request is taken up, so the settlement of an *)
(* initialization and the handlers awaiting it are one step.                *)

MaxInits == 3

Reqs == {"r1", "r2"}

\* The handler actions that call manager.getWallet(): GET create, whose catch
\* block resets the manager, and GET balance, whose catch block does not (GET
\* request, GET outputs and POST receive await getWallet and catch as balance
\* does).
WalletActions == {"create", "balance"}

\* Private keys: the one saved by an earlier run of the server, the one in
\* process.env[envVar], and generatePrivateKey() of initialization n.
NoFile == 0
SavedKey == 1
EnvKey == 2
generatePrivateKey(n) == 10 + n

IdleRequest ==
    [pc |-> "idle", action |-> "none", init |-> 0, wallet |-> 0, status |-> 0,
     cached |-> FALSE]

\* new ServerWalletManager(config), in a process with or without the key in the
\* environment and with or without a key file left by an earlier run.
NewManager(env, keyFile) ==
    [pc |-> "on", env |-> env, keyFile |-> keyFile, wallet |-> 0, initPromise |-> 0,
     inits |-> <<>>, reqs |-> [r \in Reqs |-> IdleRequest],
     event |-> "none", creates |-> 0, served |-> {}]

\* manager.reset(): wallet and initPromise are nulled and the key file is
\* deleted.  creates and served count from the last reset.
reset(m) ==
    [m EXCEPT !.wallet = 0, !.initPromise = 0, !.keyFile = NoFile,
              !.creates = 0, !.served = {}]

\* The handlers' catch block: if (action === 'create') manager.reset().
CatchHandler(m, action) == IF action = "create" THEN reset(m) ELSE m

\* The handlers awaiting initialization n continue: with the wallet when it
\* resolved, into the catch block (status 500) when it rejected.
Settle(m, n, ok) ==
    LET waiting == {r \in Reqs : m.reqs[r].pc = "await" /\ m.reqs[r].init = n}
        answered == [m EXCEPT !.reqs = [r \in Reqs |->
                        IF r \in waiting
                        THEN [m.reqs[r] EXCEPT !.pc = "done",
                                               !.wallet = IF ok THEN n ELSE 0,
                                               !.status = IF ok THEN 200 ELSE 500]
                        ELSE m.reqs[r]]]
    IN  IF ok
        THEN [answered EXCEPT !.served = IF waiting = {} THEN @ ELSE @ \cup {n}]
        ELSE IF \E r \in waiting : m.reqs[r].action = "create"
        THEN CatchHandler(answered, "create")
        ELSE answered

\* A request for an action that needs the wallet: manager.getWallet() returns
\* the wallet, or the cached initPromise (pending, resolved or rejected), or
\* starts an initialization and caches its promise.
GetWallet(r) ==
    /\ mgr.pc = "on"
    /\ mgr.reqs[r].pc \in {"idle", "done"}
    /\ \E action \in WalletActions :
         LET q == [IdleRequest EXCEPT !.action = action]
             n == mgr.initPromise
         IN  IF mgr.wallet # 0
             THEN mgr' = [mgr EXCEPT !.reqs[r] = [q EXCEPT !.pc = "done", !.status = 200,
                                                          !.wallet = mgr.wallet],
                                     !.served = @ \cup {mgr.wallet},
                                     !.event = "request"]
             ELSE IF n # 0 /\ mgr.inits[n].pc = "rejected"
             THEN mgr' = [CatchHandler([mgr EXCEPT !.reqs[r] =
                                [q EXCEPT !.pc = "done", !.status = 500, !.init = n,
                                          !.cached = TRUE]], action)
                            EXCEPT !.event = "failure"]
             ELSE IF n # 0 /\ mgr.inits[n].pc = "resolved"
             THEN mgr' = [mgr EXCEPT !.reqs[r] = [q EXCEPT !.pc = "done", !.status = 200,
                                                          !.init = n, !.wallet = n],
                                     !.served = @ \cup {n},
                                     !.event = "request"]
             ELSE IF n # 0
             THEN mgr' = [mgr EXCEPT !.reqs[r] = [q EXCEPT !.pc = "await", !.init = n],
                                     !.event = "request"]
             ELSE /\ Len(mgr.inits) < MaxInits
                  /\ mgr' = [mgr EXCEPT
                        !.inits = Append(@, [pc |-> "import", privateKey |-> 0]),
                        !.initPromise = Len(mgr.inits) + 1,
                        !.reqs[r] = [q EXCEPT !.pc = "await", !.init = Len(mgr.inits) + 1],
                        !.event = "request"]
    /\ UNCHANGED <<engineVars, crawlVars, tierVars, cod, iss, ovl>>

\* GET ?action=reset.
ResetRequest ==
    /\ mgr.pc = "on"
    /\ mgr' = [reset(mgr) EXCEPT !.event = "reset"]
    /\ UNCHANGED <<engineVars, crawlVars, tierVars, cod, iss, ovl>>

\* The initialization after its imports: the key is chosen and
\* ServerWallet.create is called.
CreateWallet(n) ==
    /\ mgr.pc = "on"
    /\ mgr.inits[n].pc = "import"
    /\ mgr' = [mgr EXCEPT
          !.inits[n] = [pc |-> "creating",
                        privateKey |-> IF mgr.env THEN EnvKey
                                       ELSE IF mgr.keyFile # NoFile THEN mgr.keyFile
                                       ELSE generatePrivateKey(n)],
          !.creates = @ + 1,
          !.event = "create"]
    /\ UNCHANGED <<engineVars, crawlVars, tierVars, cod, iss, ovl>>

\* ServerWallet.create answers: this.wallet is set, the key persisted unless
\* it came from the environment, and the promise resolves.
WalletCreated(n) ==
    /\ mgr.pc = "on"
    /\ mgr.inits[n].pc = "creating"
    /\ mgr' = [Settle([mgr EXCEPT !.inits[n].pc = "resolved",
                                  !.wallet = n,
                                  !.keyFile = IF mgr.env THEN @
                                              ELSE mgr.inits[n].privateKey],
                      n, TRUE)
                 EXCEPT !.event = "initialized"]
    /\ UNCHANGED <<engineVars, crawlVars, tierVars, cod, iss, ovl>>

\* The import or ServerWallet.create throws: the promise rejects.
InitFailed(n) ==
    /\ mgr.pc = "on"
    /\ mgr.inits[n].pc \in {"import", "creating"}
    /\ mgr' = [Settle([mgr EXCEPT !.inits[n].pc = "rejected"], n, FALSE)
                 EXCEPT !.event = "failure"]
    /\ UNCHANGED <<engineVars, crawlVars, tierVars, cod, iss, ovl>>

ManagerInit ==
    /\ chain = <<>>
    /\ outputs = <<>>
    /\ proc = [p \in Procs |-> IdleProc]
    /\ world = NoWorld
    /\ crawl = NoCrawl
    /\ req = NoRequest
    /\ cod = NoCodec
    /\ mgr \in {NewManager(env, keyFile) : env \in BOOLEAN, keyFile \in {NoFile, SavedKey}}
    /\ iss = NoIssuer
    /\ ovl = NoOverlay

ManagerNext ==
    \/ \E r \in Reqs : GetWallet(r)
    \/ ResetRequest
    \/ \E n \in 1..MaxInits : n <= Len(mgr.inits) /\ CreateWallet(n)
    \/ \E n \in 1..MaxInits : n <= Len(mgr.inits) /\ WalletCreated(n)
    \/ \E n \in 1..MaxInits : n <= Len(mgr.inits) /\ InitFailed(n)

ManagerSpec == ManagerInit /\ [][ManagerNext]_vars

----------------------------------------------------------------------------
(* C26 *)

\* C26: no request for an action that needs the wallet is answered with the
\* failure of an initialization that had already failed when the request
\* arrived.
C26_FailedInitIsRetried ==
    mgr.pc = "on" => \A r \in Reqs : ~mgr.reqs[r].cached

----------------------------------------------------------------------------
(* C27 *)

\* C27: the key file changes only in a step that is an explicit reset request
\* or the success of an initialization; never in one where an initialization
\* or a request fails.
C27_KeyFileSurvivesFailure ==
    [][(mgr.pc = "on" /\ mgr'.keyFile # mgr.keyFile)
          => mgr'.event \in {"reset", "initialized"}]_vars

----------------------------------------------------------------------------
(* C28 *)

\* C28: since the last reset, ServerWallet.create was called at most once and
\* every caller of getWallet that was answered got the same wallet instance.
C28_OneInitBetweenResets ==
    mgr.pc = "on" => mgr.creates <= 1 /\ Cardinality(mgr.served) <= 1

----------------------------------------------------------------------------
(* The credential issuer (modules/credentials: CredentialIssuer with its    *)
(* RevocationStore).  Serial numbers are 1, 2, ... in order of issuance.    *)
(* iss holds the issuer's revocationEnabled, the store's records, the       *)
(* credentials issued, the revocations that returned a txid, the revocation *)
(* outputs spent on the ledger, the revoke call in flight, and the last     *)
(* isRevoked call with its answer (dropped by the next operation).          *)

MaxCredentials == 3

Serials == 1..MaxCredentials

NoSerial == 0

NoRevoke == [pc |-> "idle", serialNumber |-> NoSerial]

\* CredentialIssuer.create(config): revocation.enabled (with a wallet) or not,
\* an empty revocation store.
NewIssuer(revocationEnabled) ==
    [pc |-> "on", revocationEnabled |-> revocationEnabled, store |-> {},
     issued |-> {}, revoked |-> {}, spent |-> {},
     revoking |-> NoRevoke, asked |-> NoSerial, answer |-> FALSE]

\* issue(): on success the credential exists; its revocation secret is saved
\* under its serial number when revocation is enabled.  A throw (unknown
\* schema, validation, createAction, the store) issues nothing.
issue ==
    /\ iss.pc = "on"
    /\ Cardinality(iss.issued) < MaxCredentials
    /\ \/ LET sn == Cardinality(iss.issued) + 1
          IN  iss' = [iss EXCEPT !.issued = @ \cup {sn},
                                 !.store = IF iss.revocationEnabled THEN @ \cup {sn} ELSE @,
                                 !.asked = NoSerial]
       \/ iss' = [iss EXCEPT !.asked = NoSerial]
    /\ UNCHANGED <<engineVars, crawlVars, tierVars, cod, mgr, ovl>>

\* revoke(serialNumber) up to the await of createAction: throws when
\* revocation is not enabled or the store has no record.
revoke ==
    /\ iss.pc = "on"
    /\ iss.revoking.pc = "idle"
    /\ \E sn \in Serials :
         iss' = IF iss.revocationEnabled /\ sn \in iss.store
                THEN [iss EXCEPT !.revoking = [pc |-> "spend", serialNumber |-> sn],
                                 !.asked = NoSerial]
                ELSE [iss EXCEPT !.asked = NoSerial]
    /\ UNCHANGED <<engineVars, crawlVars, tierVars, cod, mgr, ovl>>

\* createAction answers: with a txid (the revocation output is spent) or not.
RevokeSpend ==
    /\ iss.pc = "on"
    /\ iss.revoking.pc = "spend"
    /\ LET sn == iss.revoking.serialNumber
       IN  \/ iss' = [iss EXCEPT !.spent = @ \cup {sn},
                                 !.revoking = [pc |-> "delete", serialNumber |-> sn],
                                 !.asked = NoSerial]
           \/ iss' = [iss EXCEPT !.revoking = NoRevoke,
                                 !.asked = NoSerial]
    /\ UNCHANGED <<engineVars, crawlVars, tierVars, cod, mgr, ovl>>

\* "Only delete after successful spend": store.delete, then revoke returns.
RevokeDelete ==
    /\ iss.pc = "on"
    /\ iss.revoking.pc = "delete"
    /\ LET sn == iss.revoking.serialNumber
       IN  iss' = [iss EXCEPT !.store = @ \ {sn}, !.revoked = @ \cup {sn},
                              !.revoking = NoRevoke, !.asked = NoSerial]
    /\ UNCHANGED <<engineVars, crawlVars, tierVars, cod, mgr, ovl>>

\* const hasRecord = await this.store.has(serialNumber); return !hasRecord
HasRecord(store, serialNumber) == serialNumber \in store

isRevoked ==
    /\ iss.pc = "on"
    /\ \E sn \in Serials :
         iss' = [iss EXCEPT !.asked = sn, !.answer = ~HasRecord(iss.store, sn)]
    /\ UNCHANGED <<engineVars, crawlVars, tierVars, cod, mgr, ovl>>

IssuerInit ==
    /\ chain = <<>>
    /\ outputs = <<>>
    /\ proc = [p \in Procs |-> IdleProc]
    /\ world = NoWorld
    /\ crawl = NoCrawl
    /\ req = NoRequest
    /\ cod = NoCodec
    /\ mgr = NoManager
    /\ iss \in {NewIssuer(enabled) : enabled \in BOOLEAN}
    /\ ovl = NoOverlay

IssuerNext ==
    \/ issue
    \/ revoke
    \/ RevokeSpend
    \/ RevokeDelete
    \/ isRevoked

IssuerSpec == IssuerInit /\ [][IssuerNext]_vars

----------------------------------------------------------------------------
(* C29 *)

\* C29: isRevoked of an issued credential's serial number answers true exactly
\* when a revoke of it has succeeded: false while it is issued and unrevoked,
\* a failed revoke included, and true ever after the revoke returned.
C29_IsRevokedIffRevoked ==
    (iss.pc = "on" /\ iss.asked \in iss.issued /\ iss.revoking.pc = "idle")
        => (iss.answer <=> iss.asked \in iss.revoked)

----------------------------------------------------------------------------
(* The overlay (modules/overlay: class Overlay).  ovl holds this.topics,    *)
(* the array the caller passed as config.topics, and this.broadcaster.  A   *)
(* TopicBroadcaster is built from an array; whether it keeps that array or  *)
(* a copy of it is the library's choice, fixed per run in ovl.keepsArray:   *)
(* a broadcaster that keeps the array sees later pushes and splices of it.  *)

TopicNames == {"tm_a", "tm_b", "tm_c", "other"}

\* topic.startsWith('tm_')
HasPrefix(topic) == topic \in {"tm_a", "tm_b", "tm_c"}

\* new TopicBroadcaster(array, ...): array is "config" (config.topics) or
\* "topics" (this.topics); topics is the copy taken when it does not keep it.
TopicBroadcaster(o, array) ==
    [array |-> IF o.keepsArray THEN array ELSE "copy",
     topics |-> IF o.keepsArray THEN <<>>
                ELSE IF array = "config" THEN o.config ELSE o.topics]

\* The topics a broadcaster submits to.
BroadcasterTopics(o, b) ==
    CASE b.array = "config" -> o.config
      [] b.array = "topics" -> o.topics
      [] OTHER -> b.topics

NoBroadcast == [made |-> FALSE, perCall |-> FALSE, targets |-> <<>>]

\* Overlay.create(config) and the constructor: this.topics = [...config.topics],
\* the broadcaster built from config.topics.
NewOverlay(topics, keepsArray) ==
    LET o == [pc |-> "on", keepsArray |-> keepsArray, config |-> topics,
              topics |-> topics, broadcaster |-> <<>>, cast |-> NoBroadcast]
    IN  [o EXCEPT !.broadcaster = TopicBroadcaster(o, "config")]

getInfo(o) == o.topics

rebuildBroadcaster(o) == [o EXCEPT !.broadcaster = TopicBroadcaster(o, "topics")]

Includes(q, x) == \E k \in DOMAIN q : q[k] = x

\* this.topics.splice(this.topics.indexOf(topic), 1)
Splice(q, x) ==
    LET index == CHOOSE k \in DOMAIN q : q[k] = x /\ \A j \in 1..(k - 1) : q[j] # x
    IN  [k \in 1..(Len(q) - 1) |-> IF k < index THEN q[k] ELSE q[k + 1]]

\* addTopic(topic): throws on a topic without the prefix; a new topic is
\* pushed and the broadcaster rebuilt.
addTopic ==
    /\ ovl.pc = "on"
    /\ \E topic \in TopicNames :
         ovl' = IF HasPrefix(topic) /\ ~Includes(ovl.topics, topic)
                THEN [rebuildBroadcaster([ovl EXCEPT !.topics = Append(@, topic)])
                        EXCEPT !.cast = NoBroadcast]
                ELSE [ovl EXCEPT !.cast = NoBroadcast]
    /\ UNCHANGED <<engineVars, crawlVars, tierVars, cod, mgr, iss>>

\* removeTopic(topic): a listed topic is spliced out, and the broadcaster is
\* rebuilt if topics remain.
removeTopic ==
    /\ ovl.pc = "on"
    /\ \E topic \in TopicNames :
         ovl' = IF Includes(ovl.topics, topic)
                THEN LET o == [ovl EXCEPT !.topics = Splice(@, topic),
                                          !.cast = NoBroadcast]
                     IN  IF Len(o.topics) > 0 THEN rebuildBroadcaster(o) ELSE o
                ELSE [ovl EXCEPT !.cast = NoBroadcast]
    /\ UNCHANGED <<engineVars, crawlVars, tierVars, cod, mgr, iss>>

\* broadcast(tx): this.broadcaster submits tx to its topics.
broadcast ==
    /\ ovl.pc = "on"
    /\ ovl' = [ovl EXCEPT !.cast =
                  [made |-> TRUE, perCall |-> FALSE,
                   targets |-> BroadcasterTopics(ovl, ovl.broadcaster)]]
    /\ UNCHANGED <<engineVars, crawlVars, tierVars, cod, mgr, iss>>

\* broadcast(tx, topics) with per-call topics: a one-off broadcaster, or a
\* throw on a topic without the prefix; this.broadcaster is not touched.
BroadcastPerCall ==
    /\ ovl.pc = "on"
    /\ \E topic \in TopicNames :
         ovl' = [ovl EXCEPT !.cast =
                    IF HasPrefix(topic)
                    THEN [made |-> TRUE, perCall |-> TRUE, targets |-> <<topic>>]
                    ELSE NoBroadcast]
    /\ UNCHANGED <<engineVars, crawlVars, tierVars, cod, mgr, iss>>

OverlayInit ==
    /\ chain = <<>>
    /\ outputs = <<>>
    /\ proc = [p \in Procs |-> IdleProc]
    /\ world = NoWorld
    /\ crawl = NoCrawl
    /\ req = NoRequest
    /\ cod = NoCodec
    /\ mgr = NoManager
    /\ iss = NoIssuer
    /\ ovl \in {NewOverlay(topics, keepsArray) :
                  topics \in {<<"tm_a">>, <<"tm_a", "tm_b">>, <<"tm_b", "tm_b">>},
                  keepsArray \in BOOLEAN}

OverlayNext ==
    \/ addTopic
    \/ removeTopic
    \/ broadcast
    \/ BroadcastPerCall

OverlaySpec == OverlayInit /\ [][OverlayNext]_vars

----------------------------------------------------------------------------
(* C30 *)

\* C30: a broadcast without per-call topics, made after any addTopic and
\* removeTopic calls, went to exactly the topics getInfo() reports.
C30_BroadcastTargetsCurrentTopics ==
    (ovl.pc = "on" /\ ovl.cast.made /\ ~ovl.cast.perCall)
        => ovl.cast.targets = getInfo(ovl)

====
